---- MODULE Spec2Model ----
(***************************************************************************)
(* CS2 Market Analyzer: identifier parser, Skinport catalog matcher, fee   *)
(* model, Steam display cap and the "Run check" comparison loop.           *)
(*                                                                         *)
(* Representation of Python values                                         *)
(*   str    a sequence of one-character strings; the character U+2122 is   *)
(*          written "TM" and U+2605 (black star) is written "STAR"         *)
(*   None   the record NoneVal                                             *)
(*   float  an integer (amounts are whole currency units unless noted)     *)
(***************************************************************************)
EXTENDS Integers, Sequences, FiniteSets, TLC

VARIABLES
    p_in,       \* the build_market_hash_name arguments, or a raw identifier
    p_mh,       \* the identifier handed to parse_market_hash_name, or NoneVal
    p_parsed,   \* the dict returned by parse_market_hash_name, or NoneVal
    m_call,     \* arguments of skinport_find_min_price_usd: items, target, debug
    m_ret,      \* its return value (price, reason), or NoneVal before the call
    f_call,     \* arguments of a fee function: market, listing price, fees_cfg
    f_ret,      \* the fee function applied and its outcome, or NoneVal
    c_call,     \* arguments of enforce_scm_cap_display: price_usd, usd_cap
    c_ret,      \* its outcome, or the record NotCalled before the call
    watchlist,  \* st.session_state.watchlist
    sp_items,   \* the Skinport catalog held by the load_skinport_items cache
    pc,         \* "idle", "checking" (inside the Run check loop) or "shown"
    show_debug, \* the "Show matching debug" toggle of the running check
    watch,      \* the identifiers of the running check
    i,          \* number of identifiers the loop has processed
    rows_out,   \* the rows the loop has appended
    df,         \* the table displayed after the check
    w_call      \* the last watchlist helper called, its argument and the list before

parserVars  == <<p_in, p_mh, p_parsed>>
matcherVars == <<m_call, m_ret>>
feeVars     == <<f_call, f_ret>>
capVars     == <<c_call, c_ret>>
appVars     == <<watchlist, sp_items, pc, show_debug, watch, i, rows_out, df, w_call>>

vars == <<parserVars, matcherVars, feeVars, capVars, appVars>>

----------------------------------------------------------------------------
(* Bounds *)

MaxParts == 3       \* pieces concatenated to form a base name or a pasted name
MaxItems == 2       \* entries of a Skinport catalog
MaxPrice == 2       \* largest listing price
MaxCap   == 5       \* largest display cap
MaxWatch == 3       \* largest watchlist
MaxLines == 2       \* lines of a pasted text
MaxSteamPrice == 2  \* largest price Steam reports

----------------------------------------------------------------------------
(* Python values *)

NoneVal == [t |-> "None"]
PyStr(s) == [t |-> "str", s |-> s]
PyNum(n) == [t |-> "float", v |-> n]

----------------------------------------------------------------------------
(* str helpers *)

Whitespace == {" ", "\t"}

RECURSIVE LStrip(_)
LStrip(s) ==
    IF s # <<>> /\ Head(s) \in Whitespace THEN LStrip(Tail(s)) ELSE s

RECURSIVE RStrip(_)
RStrip(s) ==
    IF s # <<>> /\ s[Len(s)] \in Whitespace
    THEN RStrip(SubSeq(s, 1, Len(s) - 1))
    ELSE s

\* str.strip()
Strip(s) == RStrip(LStrip(s))

\* str.startswith(p)
StartsWith(s, p) == Len(s) >= Len(p) /\ SubSeq(s, 1, Len(p)) = p

\* s[n:]
DropFirst(s, n) == SubSeq(s, n + 1, Len(s))

\* p in s
Contains(s, p) ==
    \E k \in 0..(Len(s) - Len(p)) : SubSeq(s, k + 1, k + Len(p)) = p

\* all concatenations of at most n pieces
RECURSIVE Concats(_, _)
Concats(pieces, n) ==
    IF n = 0 THEN {<<>>}
    ELSE LET shorter == Concats(pieces, n - 1)
         IN  shorter \cup {s \o q : s \in shorter, q \in pieces}

----------------------------------------------------------------------------
(* app.py: identifier parser *)

FactoryNew     == <<"F","a","c","t","o","r","y"," ","N","e","w">>
MinimalWear    == <<"M","i","n","i","m","a","l"," ","W","e","a","r">>
FieldTested    == <<"F","i","e","l","d","-","T","e","s","t","e","d">>
WellWorn       == <<"W","e","l","l","-","W","o","r","n">>
BattleScarred  == <<"B","a","t","t","l","e","-","S","c","a","r","r","e","d">>

WEARS == <<FactoryNew, MinimalWear, FieldTested, WellWorn, BattleScarred>>

WearSet == {WEARS[k] : k \in 1..Len(WEARS)}

StatTrakPrefix == <<"S","t","a","t","T","r","a","k","TM"," ">>
SouvenirPrefix == <<"S","o","u","v","e","n","i","r"," ">>

\* re.search(r"\s\((Factory New|...|Battle-Scarred)\)\s*$", name) matching
\* at 1-based position k with wear alternative w
WearMatchAt(name, k, w) ==
    LET body == <<"(">> \o w \o <<")">>
        last == k + Len(body)
    IN  /\ k \in 1..Len(name)
        /\ name[k] \in Whitespace
        /\ last <= Len(name)
        /\ SubSeq(name, k + 1, last) = body
        /\ \A j \in (last + 1)..Len(name) : name[j] \in Whitespace

\* the positions at which the regular expression matches
WearMatches(name) ==
    {k \in 1..Len(name) : \E w \in WearSet : WearMatchAt(name, k, w)}

\* is_souv (line 68) is evaluated on the stripped input mh, not on the
\* remainder left after the StatTrak prefix has been cut off
parse_market_hash_name(raw) ==
    LET mh      == Strip(raw)
        is_st   == StartsWith(mh, StatTrakPrefix)
        name1   == IF is_st THEN DropFirst(mh, Len(StatTrakPrefix)) ELSE mh
        is_souv == StartsWith(mh, SouvenirPrefix)
        name    == IF is_souv THEN DropFirst(name1, Len(SouvenirPrefix)) ELSE name1
        ms      == WearMatches(name)
    IN  IF ms # {}
        THEN LET start == CHOOSE k \in ms : \A j \in ms : k <= j   \* leftmost match
                 w     == CHOOSE x \in WearSet : WearMatchAt(name, start, x)
             IN  [market_hash_name |-> mh, is_stattrak |-> is_st,
                  is_souvenir |-> is_souv,
                  base_name |-> Strip(SubSeq(name, 1, start - 1)),
                  wear |-> PyStr(w)]
        ELSE [market_hash_name |-> mh, is_stattrak |-> is_st,
              is_souvenir |-> is_souv,
              base_name |-> Strip(name),
              wear |-> NoneVal]

\* mutant: the space between the base name and the wear is left out
BuildWithoutSpace(base_name, wear, stattrak) ==
    LET mh == Strip(base_name) \o <<"(">> \o Strip(wear) \o <<")">>
    IN  IF stattrak THEN StatTrakPrefix \o mh ELSE mh

build_market_hash_name(base_name, wear, stattrak) ==
    LET b  == Strip(base_name)
        w  == Strip(wear)
        mh == b \o <<" ", "(">> \o w \o <<")">>
    IN  IF stattrak THEN StatTrakPrefix \o mh ELSE mh

----------------------------------------------------------------------------
(* Inputs drawn for the parser *)

StatTrakWord == SubSeq(StatTrakPrefix, 1, Len(StatTrakPrefix) - 1)
SouvenirWord == SubSeq(SouvenirPrefix, 1, Len(SouvenirPrefix) - 1)

BasePieces == {<<"A">>, <<" ">>, <<"(">>, <<")">>, StatTrakWord, SouvenirWord}

BaseNames == Concats(BasePieces, MaxParts)

PastedPieces ==
    {StatTrakPrefix, SouvenirPrefix, <<"A">>, <<" ">>,
     <<" ", "(">> \o FieldTested \o <<")">>}

PastedNames == Concats(PastedPieces, MaxParts)

ParserInputs ==
    {[base_name |-> b, wear |-> w, stattrak |-> st] :
        b \in BaseNames, w \in WearSet, st \in BOOLEAN}
    \cup {[raw |-> r] : r \in PastedNames}

IsBuildArgs(x) == "base_name" \in DOMAIN x

ParserIdle ==
    /\ p_in = NoneVal
    /\ p_mh = NoneVal
    /\ p_parsed = NoneVal

MatcherIdle ==
    /\ m_call = NoneVal
    /\ m_ret = NoneVal

FeesIdle ==
    /\ f_call = NoneVal
    /\ f_ret = NoneVal

CapIdle ==
    /\ c_call = NoneVal
    /\ c_ret = NoneVal

AppIdle ==
    /\ watchlist = <<>>
    /\ sp_items = <<>>
    /\ pc = "idle"
    /\ show_debug = FALSE
    /\ watch = <<>>
    /\ i = 0
    /\ rows_out = <<>>
    /\ df = <<>>
    /\ w_call = NoneVal

InitParser ==
    /\ p_in \in ParserInputs
    /\ p_mh = NoneVal
    /\ p_parsed = NoneVal
    /\ MatcherIdle /\ FeesIdle /\ CapIdle /\ AppIdle

\* gallery card, line 326: mh = build_market_hash_name(base, wear, stattrak)
BuildName ==
    /\ IsBuildArgs(p_in)
    /\ p_mh = NoneVal
    /\ p_mh' = PyStr(build_market_hash_name(p_in.base_name, p_in.wear, p_in.stattrak))
    /\ UNCHANGED <<p_in, p_parsed>>
    /\ UNCHANGED <<matcherVars, feeVars, capVars, appVars>>

\* an identifier that did not come from build_market_hash_name
\* (a Steam search result, line 128, or a pasted watchlist line)
ReceiveName ==
    /\ ~IsBuildArgs(p_in)
    /\ p_mh = NoneVal
    /\ p_mh' = PyStr(p_in.raw)
    /\ UNCHANGED <<p_in, p_parsed>>
    /\ UNCHANGED <<matcherVars, feeVars, capVars, appVars>>

\* lines 132 and 399: parsed = parse_market_hash_name(mh)
ParseName ==
    /\ p_mh # NoneVal
    /\ p_parsed = NoneVal
    /\ p_parsed' = parse_market_hash_name(p_mh.s)
    /\ UNCHANGED <<p_in, p_mh>>
    /\ UNCHANGED <<matcherVars, feeVars, capVars, appVars>>

NextParser ==
    \/ BuildName
    \/ ReceiveName
    \/ ParseName

SpecParser == InitParser /\ [][NextParser]_vars

----------------------------------------------------------------------------
(* src/market_clients.py: Skinport catalog matcher *)

UpperChars == <<"A", "B", "C", "D", "E", "F", "G", "H", "I", "J", "K", "L", "M",
                "N", "O", "P", "Q", "R", "S", "T", "U", "V", "W", "X", "Y", "Z">>
LowerChars == <<"a", "b", "c", "d", "e", "f", "g", "h", "i", "j", "k", "l", "m",
                "n", "o", "p", "q", "r", "s", "t", "u", "v", "w", "x", "y", "z">>

LowerChar(c) ==
    IF \E k \in 1..Len(UpperChars) : UpperChars[k] = c
    THEN LowerChars[CHOOSE k \in 1..Len(UpperChars) : UpperChars[k] = c]
    ELSE c

\* str.lower()
Lower(s) == [k \in 1..Len(s) |-> LowerChar(s[k])]

\* s.replace(c, "")
RECURSIVE RemoveChar(_, _)
RemoveChar(s, c) ==
    IF s = <<>> THEN <<>>
    ELSE IF Head(s) = c THEN RemoveChar(Tail(s), c)
    ELSE <<Head(s)>> \o RemoveChar(Tail(s), c)

HasChar(s, c) == \E k \in 1..Len(s) : s[k] = c

\* s.rfind(c) as a 1-based position; only used when c occurs in s
RFind(s, c) == CHOOSE k \in 1..Len(s) : s[k] = c /\ \A j \in (k + 1)..Len(s) : s[j] # c

\* (s or "") for an optional str
OrEmpty(x) == IF x = NoneVal THEN <<>> ELSE x.s

_norm(x) == Lower(Strip(OrEmpty(x)))

_simplify(s) ==
    LET t == Strip(RemoveChar(s, "STAR"))
    IN  IF HasChar(t, "(") /\ HasChar(t, ")")
        THEN Strip(SubSeq(t, 1, RFind(t, "(") - 1))
        ELSE t

Abs(n) == IF n < 0 THEN -n ELSE n

_match_score(target, candidate) ==
    IF candidate = target THEN 100
    ELSE (IF StartsWith(candidate, target) THEN 50 ELSE 0)
         + (IF Contains(candidate, target) THEN 30 ELSE 0)
         - (Abs(Len(candidate) - Len(target)) \div 2)

Digits == <<"0", "1", "2", "3", "4", "5", "6", "7", "8", "9">>

IsDigit(c) == \E d \in 1..Len(Digits) : Digits[d] = c

DigitValue(c) == (CHOOSE d \in 1..Len(Digits) : Digits[d] = c) - 1

RECURSIVE DecimalValue(_)
DecimalValue(s) ==
    IF s = <<>> THEN 0
    ELSE 10 * DecimalValue(SubSeq(s, 1, Len(s) - 1)) + DigitValue(s[Len(s)])

\* float(x) under "try ... except Exception": the number, or NoneVal where
\* float raises (None, or a str that is not a decimal numeral)
TryFloat(x) ==
    IF x.t = "float" THEN x
    ELSE IF x.t = "str" /\ Strip(x.s) # <<>>
            /\ \A k \in 1..Len(Strip(x.s)) : IsDigit(Strip(x.s)[k])
         THEN PyNum(DecimalValue(Strip(x.s)))
    ELSE NoneVal

ExactMatchText   == <<"e","x","a","c","t"," ","m","a","t","c","h",":"," ">>
PartialMatchText == <<"p","a","r","t","i","a","l"," ","m","a","t","c","h",":"," ">>
NoCandidatesText == <<"n","o"," ","c","a","n","d","i","d","a","t","e","s">>

\* one pass of the loop body, lines 167-185: the candidates contributed by
\* the catalog entry it
CandidatesOf(it, target, target_simple) ==
    LET mh  == _norm(it.market_hash_name)
        val == TryFloat(it.min_price)
    IN  IF val = NoneVal THEN <<>>
        ELSE IF mh = target
             THEN <<[val |-> val.v, reason |-> ExactMatchText \o mh, score |-> 100]>>
        ELSE IF target_simple # <<>> /\ Contains(mh, target_simple)
             THEN <<[val |-> val.v, reason |-> PartialMatchText \o mh,
                     score |-> _match_score(target_simple, mh)]>>
        ELSE <<>>

\* mutant: only the exact tier is collected
RECURSIVE CollectExactOnly(_, _, _)
CollectExactOnly(items, target, target_simple) ==
    IF items = <<>> THEN <<>>
    ELSE CandidatesOf(Head(items), target, <<>>)
         \o CollectExactOnly(Tail(items), target, target_simple)

RECURSIVE CollectCandidates(_, _, _)
CollectCandidates(items, target, target_simple) ==
    IF items = <<>> THEN <<>>
    ELSE CandidatesOf(Head(items), target, target_simple)
         \o CollectCandidates(Tail(items), target, target_simple)

\* mutant: the score is compared before the price
KeyLessScoreFirst(a, b) == -a.score < -b.score \/ (a.score = b.score /\ a.val < b.val)

\* the sort key (x[0], -x[2]) compared as Python compares tuples
KeyLess(a, b) == a.val < b.val \/ (a.val = b.val /\ -a.score < -b.score)

\* candidates.sort(key=...)[0]: list.sort is stable, so the first element is
\* the earliest candidate that no other candidate precedes by key
FirstAfterSort(candidates) ==
    LET k == CHOOSE k \in 1..Len(candidates) :
                 /\ \A j \in 1..Len(candidates) : ~KeyLess(candidates[j], candidates[k])
                 /\ \A j \in 1..(k - 1) : KeyLess(candidates[k], candidates[j])
    IN  candidates[k]

\* mutant: the reason is returned whether or not debug is set
FindMinPriceAlwaysReason(items, market_hash_name, debug) ==
    LET target        == _norm(PyStr(market_hash_name))
        target_simple == _norm(PyStr(_simplify(market_hash_name)))
        candidates    == CollectCandidates(items, target, target_simple)
    IN  IF candidates = <<>>
        THEN [price |-> NoneVal, reason |-> PyStr(NoCandidatesText)]
        ELSE [price |-> PyNum(FirstAfterSort(candidates).val),
              reason |-> PyStr(FirstAfterSort(candidates).reason)]

skinport_find_min_price_usd(items, market_hash_name, debug) ==
    LET target        == _norm(PyStr(market_hash_name))
        target_simple == _norm(PyStr(_simplify(market_hash_name)))
        candidates    == CollectCandidates(items, target, target_simple)
    IN  IF candidates = <<>>
        THEN [price |-> NoneVal, reason |-> PyStr(NoCandidatesText)]
        ELSE LET best == FirstAfterSort(candidates)
             IN  [price |-> PyNum(best.val),
                  reason |-> IF debug THEN PyStr(best.reason) ELSE NoneVal]

----------------------------------------------------------------------------
(* Inputs drawn for the matcher *)

CatalogNames ==
    {NoneVal,
     PyStr(<<"A"," ","(","x",")">>),
     PyStr(<<" ","a"," ","(","x",")"," ">>),
     PyStr(<<"A"," ","(","x",")"," ","b">>),
     PyStr(<<"STAR"," ","A">>),
     PyStr(<<"A">>)}

CatalogPrices ==
    {NoneVal, PyStr(<<"n", "/", "a">>), PyStr(<<"1">>)}
    \cup {PyNum(n) : n \in 1..MaxPrice}

CatalogEntries ==
    {[market_hash_name |-> n, min_price |-> p] : n \in CatalogNames, p \in CatalogPrices}

RECURSIVE SeqsUpTo(_, _)
SeqsUpTo(S, n) ==
    IF n = 0 THEN {<<>>}
    ELSE LET shorter == SeqsUpTo(S, n - 1)
         IN  shorter \cup {Append(q, x) : q \in shorter, x \in S}

Catalogs == SeqsUpTo(CatalogEntries, MaxItems)

Targets ==
    {<<"A"," ","(","x",")">>,
     <<"STAR"," ","A"," ","(","x",")">>,
     <<"(","x",")">>,
     <<"B">>}

InitMatcher ==
    /\ m_call \in {[items |-> c, market_hash_name |-> t, debug |-> d] :
                      c \in Catalogs, t \in Targets, d \in BOOLEAN}
    /\ m_ret = NoneVal
    /\ ParserIdle /\ FeesIdle /\ CapIdle /\ AppIdle

FindMinPrice ==
    /\ m_ret = NoneVal
    /\ m_ret' = skinport_find_min_price_usd(m_call.items, m_call.market_hash_name,
                                            m_call.debug)
    /\ UNCHANGED m_call
    /\ UNCHANGED <<parserVars, feeVars, capVars, appVars>>

NextMatcher == FindMinPrice

SpecMatcher == InitMatcher /\ [][NextMatcher]_vars

----------------------------------------------------------------------------
(* src/fees.py: fee model *)

\* Rates are held in hundredths (0.12 is 12), and the amount a fee function
\* returns is held in hundredths of the listing price's unit.
RateScale == 100

SteamSellerFeeDefault     == 15
SkinportSellerFeeDefault  == 12
SkinbaronSellerFeeDefault == 10
BuyerExtraDefault         == 0

EmptyDict == [k \in {} |-> 0]

\* d.get(k, default)
DictGet(d, k, default) == IF k \in DOMAIN d THEN d[k] ELSE default

KeyError(k) == [t |-> "KeyError", key |-> k]

\* mf = fees_cfg["market_fees"].get(market, {}), lines 9 and 18: the
\* subscript raises KeyError when fees_cfg has no "market_fees" key
MarketFees(market, fees_cfg) ==
    IF "market_fees" \in DOMAIN fees_cfg
    THEN DictGet(fees_cfg["market_fees"], market, EmptyDict)
    ELSE KeyError("market_fees")

IsKeyError(x) == "t" \in DOMAIN x /\ x["t"] = "KeyError"

apply_buyer_total_usd(market, listing_price_usd, fees_cfg) ==
    LET mf == MarketFees(market, fees_cfg)
    IN  IF IsKeyError(mf) THEN mf
        ELSE IF market = "steam" THEN PyNum(listing_price_usd * RateScale)
        ELSE IF market \in {"skinport", "skinbaron"}
             THEN PyNum(listing_price_usd
                        * (RateScale + DictGet(mf, "buyer_extra_rate", BuyerExtraDefault)))
        ELSE PyNum(listing_price_usd * RateScale)

apply_seller_net_usd(market, listing_price_usd, fees_cfg) ==
    LET mf == MarketFees(market, fees_cfg)
    IN  IF IsKeyError(mf) THEN mf
        ELSE IF market = "steam"
             THEN PyNum(listing_price_usd
                        * (RateScale - DictGet(mf, "seller_fee_rate", SteamSellerFeeDefault)))
        ELSE IF market = "skinport"
             THEN PyNum(listing_price_usd
                        * (RateScale - DictGet(mf, "seller_fee_rate", SkinportSellerFeeDefault)))
        ELSE IF market = "skinbaron"
             THEN PyNum(listing_price_usd
                        * (RateScale - DictGet(mf, "seller_fee_rate", SkinbaronSellerFeeDefault)))
        ELSE PyNum(listing_price_usd * RateScale)

Markets == {"steam", "skinport", "skinbaron", "bitskins"}

FeeConfigs ==
    {EmptyDict,
     [market_fees |-> EmptyDict],
     [market_fees |-> [skinport |-> [seller_fee_rate |-> 8, buyer_extra_rate |-> 5]]],
     [market_fees |-> [steam |-> [seller_fee_rate |-> 13],
                       skinbaron |-> [buyer_extra_rate |-> 2]]]}

ListingPrices == (0..MaxPrice) \cup {100}

InitFees ==
    /\ f_call \in {[market |-> m, listing_price_usd |-> p, fees_cfg |-> c] :
                      m \in Markets, p \in ListingPrices, c \in FeeConfigs}
    /\ f_ret = NoneVal
    /\ ParserIdle /\ MatcherIdle /\ CapIdle /\ AppIdle

ApplyBuyerTotal ==
    /\ f_ret = NoneVal
    /\ f_ret' = [fn |-> "apply_buyer_total_usd",
                 out |-> apply_buyer_total_usd(f_call.market, f_call.listing_price_usd,
                                               f_call.fees_cfg)]
    /\ UNCHANGED f_call
    /\ UNCHANGED <<parserVars, matcherVars, capVars, appVars>>

ApplySellerNet ==
    /\ f_ret = NoneVal
    /\ f_ret' = [fn |-> "apply_seller_net_usd",
                 out |-> apply_seller_net_usd(f_call.market, f_call.listing_price_usd,
                                              f_call.fees_cfg)]
    /\ UNCHANGED f_call
    /\ UNCHANGED <<parserVars, matcherVars, capVars, appVars>>

NextFees ==
    \/ ApplyBuyerTotal
    \/ ApplySellerNet

SpecFees == InitFees /\ [][NextFees]_vars

----------------------------------------------------------------------------
(* src/normalizer.py: Steam display cap *)

ExceedsLimit == PyStr(<<"e","x","c","e","e","d","s"," ","l","i","m","i","t">>)

\* mutant: the cap itself is flagged
CapDisplayInclusive(price_usd, usd_cap) ==
    IF price_usd = NoneVal THEN NoneVal
    ELSE IF TryFloat(price_usd) = NoneVal \/ TryFloat(usd_cap) = NoneVal THEN NoneVal
    ELSE IF TryFloat(price_usd).v >= TryFloat(usd_cap).v THEN ExceedsLimit
    ELSE TryFloat(price_usd)

enforce_scm_cap_display(price_usd, usd_cap) ==
    IF price_usd = NoneVal THEN NoneVal
    ELSE IF TryFloat(price_usd) = NoneVal \/ TryFloat(usd_cap) = NoneVal
         THEN NoneVal                       \* float() raised: except Exception
    ELSE IF TryFloat(price_usd).v > TryFloat(usd_cap).v THEN ExceedsLimit
    ELSE TryFloat(price_usd)

CapPrices ==
    {NoneVal, PyStr(<<"n", "/", "a">>), PyStr(<<"3">>)}
    \cup {PyNum(n) : n \in 0..(MaxCap + 1)}

Caps == {PyNum(n) : n \in 0..MaxCap}

NotCalled == [t |-> "not called"]

InitCap ==
    /\ c_call \in {[price_usd |-> p, usd_cap |-> c] : p \in CapPrices, c \in Caps}
    /\ c_ret = NotCalled
    /\ ParserIdle /\ MatcherIdle /\ FeesIdle /\ AppIdle

EnforceCapDisplay ==
    /\ c_ret = NotCalled
    /\ c_ret' = enforce_scm_cap_display(c_call.price_usd, c_call.usd_cap)
    /\ UNCHANGED c_call
    /\ UNCHANGED <<parserVars, matcherVars, feeVars, appVars>>

NextCap == EnforceCapDisplay

SpecCap == InitCap /\ [][NextCap]_vars

----------------------------------------------------------------------------
(* app.py: watchlist and the "Run check" handler *)

InList(x, list) == \E k \in 1..Len(list) : list[k] = x

\* mutant: the membership test is left out
AddUnlessEmpty(list, mh) == IF mh # <<>> THEN Append(list, mh) ELSE list

\* lines 218-221; an empty str is falsy
add_to_watchlist(list, mh) ==
    IF mh # <<>> /\ ~InList(mh, list) THEN Append(list, mh) ELSE list

\* lines 224-226
remove_from_watchlist(list, mh) == SelectSeq(list, LAMBDA x : x # mh)

\* lines 350-355: the stripped non-empty lines, added in order when absent
RECURSIVE AddLines(_, _)
AddLines(list, lines) ==
    IF lines = <<>> THEN list
    ELSE LET mh == Strip(Head(lines))
         IN  IF mh # <<>> /\ ~InList(mh, list)
             THEN AddLines(add_to_watchlist(list, mh), Tail(lines))
             ELSE AddLines(list, Tail(lines))

\* mutant: the Skinport price is subtracted only when it is present
ComputeSpreadSteamOnly(steam_price, sp_price) ==
    IF steam_price.t = "float"
    THEN PyNum(steam_price.v - (IF sp_price.t = "float" THEN sp_price.v ELSE 0))
    ELSE NoneVal

\* lines 395-397
ComputeSpread(steam_price, sp_price) ==
    IF steam_price.t = "float" /\ sp_price.t = "float"
    THEN PyNum(steam_price.v - sp_price.v)
    ELSE NoneVal

\* lines 392-411: the row of identifier mh, given what Steam answered
MakeRow(mh, steam_price, items, debug_shown) ==
    LET found  == skinport_find_min_price_usd(items, mh, TRUE)
        parsed == parse_market_hash_name(mh)
        row    == [base_name |-> parsed.base_name,
                   wear |-> parsed.wear,
                   stattrak |-> parsed.is_stattrak,
                   market_hash_name |-> mh,
                   steam_usd |-> steam_price,
                   skinport_min_usd |-> found.price,
                   spread_usd |-> ComputeSpread(steam_price, found.price)]
    IN  IF debug_shown
        THEN [k \in DOMAIN row \cup {"match_debug"} |->
                 IF k = "match_debug" THEN found.reason ELSE row[k]]
        ELSE row

\* mutant: a row without any price is not appended
AppendIfPriced(rows, row) ==
    IF row.steam_usd = NoneVal /\ row.skinport_min_usd = NoneVal
    THEN rows
    ELSE Append(rows, row)

\* line 413: rows_out.append(row)
AppendRow(rows, row) == Append(rows, row)

NaNVal == [t |-> "nan"]

\* pd.DataFrame(rows_out), line 421: a column holding at least one float
\* becomes a float64 column in which None is stored as NaN; a column holding
\* only None stays an object column of None
ColumnValue(rows, field, k) ==
    IF rows[k][field] = NoneVal /\ \E j \in 1..Len(rows) : rows[j][field] # NoneVal
    THEN NaNVal
    ELSE rows[k][field]

NumericColumns == {"steam_usd", "skinport_min_usd", "spread_usd"}

DataFrame(rows) ==
    [k \in 1..Len(rows) |->
        [f \in DOMAIN rows[k] |->
            IF f \in NumericColumns THEN ColumnValue(rows, f, k) ELSE rows[k][f]]]

SpreadSortSentinel == -1000000000

\* line 425: NaN is a float, so only None is replaced by the sentinel
spread_sort(x) ==
    IF x.t \in {"float", "nan"} THEN x ELSE PyNum(SpreadSortSentinel)

\* mutant: sort_values(..., na_position="first")
MayPrecedeNaNFirst(a, b) ==
    \/ a = NaNVal
    \/ (a # NaNVal /\ b # NaNVal /\ a.v >= b.v)

\* sort_values("spread_sort", ascending=False), line 426: descending keys,
\* NaN keys last (na_position defaults to "last"); a key may stand before
\* key b when this holds
MayPrecede(a, b) ==
    \/ b = NaNVal
    \/ (a # NaNVal /\ b # NaNVal /\ a.v >= b.v)

IndexOrders(n) ==
    {f \in [1..n -> 1..n] : \A x, y \in 1..n : x # y => f[x] # f[y]}

\* the orders sort_values may produce: the default quicksort is not stable,
\* so rows with equal keys may come out in either order
SortedFrames(frame) ==
    {[k \in 1..Len(frame) |-> frame[f[k]]] :
        f \in {g \in IndexOrders(Len(frame)) :
                 \A x, y \in 1..Len(frame) :
                    x < y => MayPrecede(spread_sort(frame[g[x]].spread_usd),
                                        spread_sort(frame[g[y]].spread_usd))}}

GalleryBases == {<<"A">>}
GalleryWears == {FieldTested}

PastedLines == {<<"B">>, <<" ", "B", " ">>, <<>>, <<"C">>}

PastedTexts == SeqsUpTo(PastedLines, MaxLines)

NameAFT   == build_market_hash_name(<<"A">>, FieldTested, FALSE)
NameSTAFT == build_market_hash_name(<<"A">>, FieldTested, TRUE)

\* what skinport_get_items_usd may return; [] when the request failed
AppCatalogs ==
    {<<>>,
     <<[market_hash_name |-> PyStr(NameAFT), min_price |-> PyNum(2)],
       [market_hash_name |-> PyStr(NameSTAFT), min_price |-> PyNum(1)]>>,
     <<[market_hash_name |-> PyStr(NameAFT), min_price |-> NoneVal],
       [market_hash_name |-> PyStr(<<"B">>), min_price |-> PyNum(2)]>>,
     <<[market_hash_name |-> PyStr(<<"c">>), min_price |-> PyNum(1)],
       [market_hash_name |-> PyStr(<<"b">>), min_price |-> PyStr(<<"n", "/", "a">>)]>>}

\* what steam_get_price_usd may return
SteamPrices == {NoneVal} \cup {PyNum(n) : n \in 1..MaxSteamPrice}

Min(a, b) == IF a < b THEN a ELSE b

\* line 229 has run, and the sidebar (line 245) has filled the catalog cache
InitApp ==
    /\ watchlist = <<>>
    /\ sp_items \in AppCatalogs
    /\ pc = "idle"
    /\ show_debug = FALSE
    /\ watch = <<>>
    /\ i = 0
    /\ rows_out = <<>>
    /\ df = <<>>
    /\ w_call = NoneVal
    /\ ParserIdle /\ MatcherIdle /\ FeesIdle /\ CapIdle

\* every interaction reruns the script, which drops the previous check's table
DropCheck ==
    /\ pc' = "idle"
    /\ show_debug' = FALSE
    /\ watch' = <<>>
    /\ i' = 0
    /\ rows_out' = <<>>
    /\ df' = <<>>

\* "Load / Refresh" (lines 240-243), or the cache entry expiring
RefreshSkinport ==
    /\ pc # "checking"
    /\ sp_items' \in AppCatalogs
    /\ DropCheck
    /\ UNCHANGED watchlist
    /\ UNCHANGED <<parserVars, matcherVars, feeVars, capVars, w_call>>

\* the "Add" button of a gallery card, lines 326-334
AddFromGallery(base, wear, stattrak) ==
    /\ pc # "checking"
    /\ Len(watchlist) < MaxWatch
    /\ ~InList(build_market_hash_name(base, wear, stattrak), watchlist)
    /\ watchlist' = add_to_watchlist(watchlist, build_market_hash_name(base, wear, stattrak))
    /\ DropCheck
    /\ UNCHANGED sp_items
    /\ UNCHANGED <<parserVars, matcherVars, feeVars, capVars, w_call>>

\* "Add pasted names", lines 349-356
AddPastedNames(text) ==
    /\ pc # "checking"
    /\ Len(watchlist) + Len(text) <= MaxWatch
    /\ watchlist' = AddLines(watchlist, text)
    /\ DropCheck
    /\ UNCHANGED sp_items
    /\ UNCHANGED <<parserVars, matcherVars, feeVars, capVars, w_call>>

\* a sidebar remove button, lines 252-257
RemoveFromWatchlist(mh) ==
    /\ pc # "checking"
    /\ InList(mh, watchlist)
    /\ watchlist' = remove_from_watchlist(watchlist, mh)
    /\ DropCheck
    /\ UNCHANGED sp_items
    /\ UNCHANGED <<parserVars, matcherVars, feeVars, capVars, w_call>>

\* "Run check" pressed, lines 384-389
RunCheckBegin(max_items, debug_shown) ==
    /\ pc # "checking"
    /\ watchlist # <<>>
    /\ pc' = "checking"
    /\ show_debug' = debug_shown
    /\ watch' = SubSeq(watchlist, 1, Min(max_items, Len(watchlist)))
    /\ i' = 0
    /\ rows_out' = <<>>
    /\ df' = <<>>
    /\ UNCHANGED <<watchlist, sp_items>>
    /\ UNCHANGED <<parserVars, matcherVars, feeVars, capVars, w_call>>

\* one pass of the loop, lines 391-417
CheckItem(steam_price) ==
    /\ pc = "checking"
    /\ i < Len(watch)
    /\ rows_out' = AppendRow(rows_out, MakeRow(watch[i + 1], steam_price, sp_items, show_debug))
    /\ i' = i + 1
    /\ UNCHANGED <<watchlist, sp_items, pc, show_debug, watch, df>>
    /\ UNCHANGED <<parserVars, matcherVars, feeVars, capVars, w_call>>

\* after the loop, lines 419-434
RunCheckFinish ==
    /\ pc = "checking"
    /\ i = Len(watch)
    /\ df' \in SortedFrames(DataFrame(rows_out))
    /\ pc' = "shown"
    /\ UNCHANGED <<watchlist, sp_items, show_debug, watch, i, rows_out>>
    /\ UNCHANGED <<parserVars, matcherVars, feeVars, capVars, w_call>>

Next ==
    \/ RefreshSkinport
    \/ \E base \in GalleryBases, wear \in GalleryWears, stattrak \in BOOLEAN :
           AddFromGallery(base, wear, stattrak)
    \/ \E text \in PastedTexts : AddPastedNames(text)
    \/ \E k \in 1..Len(watchlist) : RemoveFromWatchlist(watchlist[k])
    \/ \E max_items \in 1..(MaxWatch + 1), debug_shown \in BOOLEAN :
           RunCheckBegin(max_items, debug_shown)
    \/ \E steam_price \in SteamPrices : CheckItem(steam_price)
    \/ RunCheckFinish

Spec == InitApp /\ [][Next]_vars

----------------------------------------------------------------------------
(* app.py: the watchlist helpers called in any order with any argument *)

WatchPool == {NameAFT, NameSTAFT, <<"B">>, <<"C">>, <<" ">>, <<>>}

\* line 229 has run: the session holds the empty watchlist
InitWatchlist ==
    /\ AppIdle
    /\ ParserIdle /\ MatcherIdle /\ FeesIdle /\ CapIdle

CallAddToWatchlist(mh) ==
    /\ Len(add_to_watchlist(watchlist, mh)) <= MaxWatch
    /\ w_call' = [fn |-> "add_to_watchlist", mh |-> mh, before |-> watchlist]
    /\ watchlist' = add_to_watchlist(watchlist, mh)
    /\ UNCHANGED <<sp_items, pc, show_debug, watch, i, rows_out, df>>
    /\ UNCHANGED <<parserVars, matcherVars, feeVars, capVars>>

CallRemoveFromWatchlist(mh) ==
    /\ w_call' = [fn |-> "remove_from_watchlist", mh |-> mh, before |-> watchlist]
    /\ watchlist' = remove_from_watchlist(watchlist, mh)
    /\ UNCHANGED <<sp_items, pc, show_debug, watch, i, rows_out, df>>
    /\ UNCHANGED <<parserVars, matcherVars, feeVars, capVars>>

NextWatchlist ==
    \/ \E mh \in WatchPool : CallAddToWatchlist(mh)
    \/ \E mh \in WatchPool : CallRemoveFromWatchlist(mh)

SpecWatchlist == InitWatchlist /\ [][NextWatchlist]_vars

----------------------------------------------------------------------------
(* C1 *)

NoParens(s) == \A k \in 1..Len(s) : s[k] \notin {"(", ")"}

RoundTripped ==
    /\ p_parsed.base_name = p_in.base_name
    /\ p_parsed.wear = PyStr(p_in.wear)
    /\ p_parsed.is_stattrak = p_in.stattrak

\* C1 as stated: for every base name without parentheses, every wear tier
\* and either StatTrak flag, parsing the composed identifier gives back the
\* base name, the wear and the flag.
C1_RoundTripAnyBase ==
    (IsBuildArgs(p_in) /\ p_parsed # NoneVal /\ NoParens(p_in.base_name))
        => RoundTripped

\* the base names for which composing is injective and parsing strips nothing
CleanBase(b) ==
    /\ b # <<>>
    /\ Strip(b) = b
    /\ ~StartsWith(b \o <<" ">>, StatTrakPrefix)
    /\ ~StartsWith(b \o <<" ">>, SouvenirPrefix)

\* C1 (amended): for every non-empty base name without parentheses, without
\* leading or trailing whitespace, and that neither is nor begins with the
\* word "StatTrak(TM)" or "Souvenir" followed by a space, every wear tier
\* and either StatTrak flag, parse(build(base, wear, stattrak)) gives back
\* base, wear and stattrak.
C1_RoundTripCleanBase ==
    (IsBuildArgs(p_in) /\ p_parsed # NoneVal
        /\ NoParens(p_in.base_name) /\ CleanBase(p_in.base_name))
        => RoundTripped

C1_Witness ==
    /\ IsBuildArgs(p_in)
    /\ p_parsed # NoneVal
    /\ p_in.base_name = <<"A", " ", "A">>
    /\ p_in.stattrak
    /\ p_in.wear = BattleScarred
    /\ p_parsed.base_name = <<"A", " ", "A">>
    /\ p_parsed.wear = PyStr(BattleScarred)
    /\ p_parsed.is_stattrak

----------------------------------------------------------------------------
(* C8 *)

\* C8: for an identifier "StatTrak(TM) Souvenir <rest>" the parser reports
\* both is_stattrak and is_souvenir, and the base name starts with neither
\* prefix.
C8_BothPrefixesDetected ==
    (p_parsed # NoneVal /\ StartsWith(p_mh.s, StatTrakPrefix \o SouvenirPrefix))
        => /\ p_parsed.is_stattrak
           /\ p_parsed.is_souvenir
           /\ ~StartsWith(p_parsed.base_name, StatTrakPrefix)
           /\ ~StartsWith(p_parsed.base_name, SouvenirPrefix)

----------------------------------------------------------------------------
(* C2, C6, C7 *)

NumericPrice(it) == TryFloat(it.min_price) # NoneVal

IsExactMatch(it, name) == _norm(it.market_hash_name) = _norm(PyStr(name))

IsPartialMatch(it, name) ==
    LET simple == _norm(PyStr(_simplify(name)))
    IN  simple # <<>> /\ Contains(_norm(it.market_hash_name), simple)

\* positions of the catalog entries that qualify for the target
Qualifying ==
    {k \in 1..Len(m_call.items) :
        /\ NumericPrice(m_call.items[k])
        /\ \/ IsExactMatch(m_call.items[k], m_call.market_hash_name)
           \/ IsPartialMatch(m_call.items[k], m_call.market_hash_name)}

PriceAt(k) == TryFloat(m_call.items[k].min_price).v

\* C2: whenever at least one catalog entry qualifies, the returned price is
\* the minimum price over all qualifying entries, exact and partial alike.
C2_PriceOrderingWins ==
    (m_ret # NoneVal /\ Qualifying # {})
        => /\ m_ret.price # NoneVal
           /\ \E k \in Qualifying : m_ret.price.v = PriceAt(k)
           /\ \A k \in Qualifying : m_ret.price.v <= PriceAt(k)

\* an exact match and a strictly cheaper partial match: the cheaper is returned
C2_Witness ==
    /\ m_ret # NoneVal
    /\ \E e, q \in Qualifying :
          /\ IsExactMatch(m_call.items[e], m_call.market_hash_name)
          /\ ~IsExactMatch(m_call.items[q], m_call.market_hash_name)
          /\ PriceAt(q) < PriceAt(e)
          /\ m_ret.price = PyNum(PriceAt(q))

NoCandidatesResult == [price |-> NoneVal, reason |-> PyStr(NoCandidatesText)]

\* C6: the result is (None, "no candidates") exactly when no entry with a
\* numeric price matches exactly or partially; otherwise the price is present.
C6_NoCandidatesIffNoneQualifies ==
    m_ret # NoneVal
        => /\ (m_ret = NoCandidatesResult) <=> (Qualifying = {})
           /\ (Qualifying # {}) => (m_ret.price # NoneVal)

\* a catalog whose only matching entry has no numeric price
C6_Witness ==
    /\ m_ret = NoCandidatesResult
    /\ m_call.debug
    /\ \E k \in 1..Len(m_call.items) :
          /\ IsExactMatch(m_call.items[k], m_call.market_hash_name)
          /\ ~NumericPrice(m_call.items[k])

\* C7 as stated: with debug = false the reason is absent, with debug = true
\* it is present, for every catalog and target.
C7_ReasonOnlyWithDebug ==
    m_ret # NoneVal => ((m_ret.reason # NoneVal) <=> m_call.debug)

\* C7 (amended): when a price is returned the reason is present exactly when
\* debug is set; when no candidate qualifies the reason "no candidates" is
\* returned whether or not debug is set.
C7_ReasonOnlyWithDebugWhenPriced ==
    m_ret # NoneVal
        => /\ (m_ret.price # NoneVal) => ((m_ret.reason # NoneVal) <=> m_call.debug)
           /\ (m_ret.price = NoneVal) => (m_ret.reason = PyStr(NoCandidatesText))

C7_Witness ==
    /\ m_ret # NoneVal
    /\ ~m_call.debug
    /\ m_ret.price # NoneVal
    /\ m_ret.reason = NoneVal

----------------------------------------------------------------------------
(* C5 *)

\* C5: with the empty schedule {} and any listing price p, the seller net on
\* "skinport" is p*(1-0.12), the seller net on "steam" is p*(1-0.15) and the
\* buyer total on "steam" is p, and no error is raised.
C5_DefaultsWithEmptySchedule ==
    (f_ret # NoneVal /\ f_call.fees_cfg = EmptyDict)
        => /\ ~IsKeyError(f_ret.out)
           /\ (f_ret.fn = "apply_seller_net_usd" /\ f_call.market = "skinport")
                 => f_ret.out = PyNum(f_call.listing_price_usd * (RateScale - 12))
           /\ (f_ret.fn = "apply_seller_net_usd" /\ f_call.market = "steam")
                 => f_ret.out = PyNum(f_call.listing_price_usd * (RateScale - 15))
           /\ (f_ret.fn = "apply_buyer_total_usd" /\ f_call.market = "steam")
                 => f_ret.out = PyNum(f_call.listing_price_usd * RateScale)

----------------------------------------------------------------------------
(* C10 *)

CapNumeric(x) == x # NoneVal /\ TryFloat(x) # NoneVal

\* C10: the result is "exceeds limit" if and only if the price is numeric and
\* price > cap; a numeric price <= cap (the cap itself included) is returned
\* unchanged; an absent or non-numeric price gives absent.
C10_StrictGreaterThan ==
    c_ret # NotCalled
        => /\ (c_ret = ExceedsLimit)
                 <=> (/\ CapNumeric(c_call.price_usd)
                      /\ TryFloat(c_call.price_usd).v > c_call.usd_cap.v)
           /\ (CapNumeric(c_call.price_usd)
                  /\ TryFloat(c_call.price_usd).v <= c_call.usd_cap.v)
                 => (c_ret.t = "float" /\ c_ret.v = TryFloat(c_call.price_usd).v)
           /\ (~CapNumeric(c_call.price_usd)) => (c_ret = NoneVal)

\* a price exactly equal to the cap is returned as a number
C10_Witness ==
    /\ c_ret # NotCalled
    /\ c_call.price_usd = c_call.usd_cap
    /\ c_ret = c_call.price_usd

----------------------------------------------------------------------------
(* C3, C4, C9 *)

Absent(x) == x \in {NoneVal, NaNVal}

\* C3: a check run over N identifiers gives exactly N rows, one per
\* identifier, whatever the fetches and matches returned: the loop has
\* appended one row per identifier processed, row k belongs to identifier k,
\* and the displayed table holds the same N rows.
C3_OneRowPerIdentifier ==
    /\ (pc \in {"checking", "shown"}) =>
          /\ Len(rows_out) = i
          /\ \A k \in 1..Len(rows_out) : rows_out[k].market_hash_name = watch[k]
    /\ (pc = "shown") =>
          /\ Len(rows_out) = Len(watch)
          /\ Len(df) = Len(watch)
          /\ \E f \in IndexOrders(Len(watch)) :
                \A k \in 1..Len(watch) : df[k].market_hash_name = watch[f[k]]

\* both sources failed for every one of at least two identifiers
C3_Witness ==
    /\ pc = "shown"
    /\ Len(watch) >= 2
    /\ Len(df) = Len(watch)
    /\ \A k \in 1..Len(df) :
          /\ df[k].steam_usd = NoneVal
          /\ df[k].skinport_min_usd = NoneVal
          /\ df[k].spread_usd = NoneVal

\* C4: in the displayed order every row with an absent spread comes after
\* every row with a present spread.
C4_AbsentSpreadLast ==
    (pc = "shown") =>
        \A x, y \in 1..Len(df) :
            (Absent(df[x].spread_usd) /\ ~Absent(df[y].spread_usd)) => y < x

\* the first identifier of the run has no spread, a later one has, and the
\* table shows the row without spread last
C4_Witness ==
    /\ pc = "shown"
    /\ Len(watch) >= 2
    /\ rows_out[1].spread_usd = NoneVal
    /\ \E k \in 2..Len(rows_out) : rows_out[k].spread_usd # NoneVal
    /\ df[Len(df)].market_hash_name = watch[1]
    /\ Absent(df[Len(df)].spread_usd)

\* C9: in every row the spread is present if and only if the Steam price and
\* the Skinport price are both present, and then it is Steam minus Skinport.
C9_SpreadIffBothPrices ==
    /\ \A k \in 1..Len(rows_out) :
          /\ (rows_out[k].spread_usd # NoneVal)
                <=> (rows_out[k].steam_usd # NoneVal /\ rows_out[k].skinport_min_usd # NoneVal)
          /\ (rows_out[k].spread_usd # NoneVal)
                => (rows_out[k].spread_usd.v
                      = rows_out[k].steam_usd.v - rows_out[k].skinport_min_usd.v)
    /\ \A k \in 1..Len(df) :
          /\ (~Absent(df[k].spread_usd))
                <=> (~Absent(df[k].steam_usd) /\ ~Absent(df[k].skinport_min_usd))
          /\ (~Absent(df[k].spread_usd))
                => (df[k].spread_usd.v = df[k].steam_usd.v - df[k].skinport_min_usd.v)

\* one row with a negative spread and one row whose Skinport price is missing
C9_Witness ==
    /\ pc = "shown"
    /\ \E k \in 1..Len(df) :
          /\ ~Absent(df[k].spread_usd)
          /\ df[k].spread_usd.v < 0
          /\ df[k].spread_usd.v = df[k].steam_usd.v - df[k].skinport_min_usd.v
    /\ \E k \in 1..Len(df) :
          /\ ~Absent(df[k].steam_usd)
          /\ Absent(df[k].skinport_min_usd)
          /\ Absent(df[k].spread_usd)

----------------------------------------------------------------------------
(* C11 *)

NormName(k) == _norm(m_call.items[k].market_hash_name)

SimpleTarget == _norm(PyStr(_simplify(m_call.market_hash_name)))

\* the qualifying entries that carry the lowest price
Cheapest == {k \in Qualifying : \A j \in Qualifying : PriceAt(k) <= PriceAt(j)}

\* the reason string the matcher attaches to qualifying entry k
ReasonAt(k) ==
    IF IsExactMatch(m_call.items[k], m_call.market_hash_name)
    THEN PyStr(ExactMatchText \o NormName(k))
    ELSE PyStr(PartialMatchText \o NormName(k))

PartialFormula(k) ==
    (IF StartsWith(NormName(k), SimpleTarget) THEN 50 ELSE 0) + 30
        - (Abs(Len(NormName(k)) - Len(SimpleTarget)) \div 2)

\* the score as the claim gives it: 100 for an exact match, the formula for
\* every partial match
StatedScore(k) ==
    IF IsExactMatch(m_call.items[k], m_call.market_hash_name) THEN 100
    ELSE PartialFormula(k)

\* C11: with debug set, the reason returned is that of a
\* lowest-price candidate whose score (exact 100, partial 50 if it starts
\* with the simplified target + 30 - floor(|length difference| / 2)) is the
\* highest among the lowest-price candidates.
C11_TieBreakByStatedScore ==
    (m_ret # NoneVal /\ m_call.debug /\ Qualifying # {})
        => \E k \in Cheapest :
              /\ m_ret.reason = ReasonAt(k)
              /\ \A j \in Cheapest : StatedScore(j) <= StatedScore(k)

----------------------------------------------------------------------------
(* C12 *)

Entries(list) == {list[k] : k \in 1..Len(list)}

NoDuplicates(list) == \A x, y \in 1..Len(list) : x # y => list[x] # list[y]

\* list b holds the entries of list a other than mh, in the order of a
KeepsOrderWithout(a, b, mh) ==
    /\ Entries(b) = Entries(a) \ {mh}
    /\ Len(b) = Cardinality({k \in 1..Len(a) : a[k] # mh})
    /\ \A x, y \in 1..Len(b) :
          x < y => \E u, v \in 1..Len(a) : u < v /\ a[u] = b[x] /\ a[v] = b[y]

\* C12: after any sequence of add_to_watchlist and remove_from_watchlist
\* calls the watchlist has no duplicate and no empty identifier; adding an
\* identifier already present leaves the list unchanged; removing an
\* identifier leaves the other entries in their previous relative order.
C12_WatchlistInvariant ==
    /\ NoDuplicates(watchlist)
    /\ <<>> \notin Entries(watchlist)
    /\ (w_call # NoneVal /\ w_call.fn = "add_to_watchlist"
            /\ w_call.mh \in Entries(w_call.before))
          => watchlist = w_call.before
    /\ (w_call # NoneVal /\ w_call.fn = "remove_from_watchlist")
          => KeepsOrderWithout(w_call.before, watchlist, w_call.mh)

\* the first of three entries was removed and the other two kept their order
C12_Witness ==
    /\ w_call # NoneVal
    /\ w_call.fn = "remove_from_watchlist"
    /\ Len(w_call.before) = 3
    /\ w_call.mh = w_call.before[1]
    /\ watchlist = <<w_call.before[2], w_call.before[3]>>

\* an identifier already present was added again and the list stayed as it was
C12_WitnessAddPresent ==
    /\ w_call # NoneVal
    /\ w_call.fn = "add_to_watchlist"
    /\ Len(w_call.before) >= 2
    /\ w_call.mh = w_call.before[1]
    /\ watchlist = w_call.before

====
